---- MODULE Spec2Model ----
(***************************************************************************)
(* Model of the Appliances4Less Streamlit dashboard:                       *)
(*   src/dashboard_app.py          free-form sales dashboard               *)
(*   src/pages/4_2026_Forecast.py  fixed-schema forecast page              *)
(*   src/pages/3_Sales_vs_PnL.py   sales gross profit against P&L net      *)
(*                                                                         *)
(* A table (pandas DataFrame) is a record [cols, rows]: cols is the        *)
(* sequence of column names, every name a sequence of one-character        *)
(* strings, and rows is a sequence of rows, every row a sequence of cells  *)
(* aligned with cols.  A cell is a record [k, v]:                          *)
(*   k = "nan"   blank / NaN / NaT / None                                  *)
(*   k = "num"   a float, v in fixed-point units of 1/Scale                *)
(*   k = "inf", "ninf"   the floats +inf and -inf                          *)
(*   k = "date"  a parseable date, v the timestamp in ticks                *)
(*   k = "text"  a string that parses neither as a number nor as a date    *)
(* Python floats are modelled as decimal fixed-point numbers with the      *)
(* IEEE special values kept.  The calendar has DaysPerMonth days in every  *)
(* month and TicksPerDay instants in every day; a month is numbered        *)
(* year * 12 + (month_number - 1).                                         *)
(*                                                                         *)
(* Streamlit reruns the whole script on every widget change, so every      *)
(* action is one run of a script with the widgets' values.                 *)
(* Specifications:                                                         *)
(*   Spec          dashboard, date / revenue files, date range picked      *)
(*   SpecSeries    dashboard, one row per month, growth columns            *)
(*   SpecInfer     dashboard, files of varied headers, column inference    *)
(*   SpecColumns   dashboard, column overrides picked                      *)
(*   SpecForecast  forecast page, growth slider moved                      *)
(***************************************************************************)
EXTENDS Integers, Sequences, FiniteSets, TLC

VARIABLES
    pc,          \* how the last script run ended; "loaded" before the first run
    uploaded,    \* the uploaded file(s) as one table
    raw,         \* dashboard: the combined input table (raw)
    df,          \* dashboard: the prepared table; forecast page: the loaded table
    colmap,      \* dashboard: date_col, revenue_col, cost_col, tax_col, profit_col
    messages,    \* st.warning / st.info / st.error texts issued so far
    selected,    \* dashboard: the three override selectboxes
    daterange,   \* dashboard: start_dt, end_dt; custom once the user picked them
    filtered,    \* dashboard: rows passing the mask
    agg,         \* dashboard: monthly aggregate with growth columns
    monthly,     \* forecast page: monthly Revenue / Profit
    assumptions, \* forecast page: avg_margin, avg_monthly_revenue, growth
    fc,          \* forecast page: forecast rows
    slider,      \* forecast page: the growth slider, in percent
    pnl_file,    \* sales-vs-P&L page: the uploaded P&L file (uploaded is the sales file)
    merged,      \* sales-vs-P&L page: sales gross profit joined with P&L net profit
    kpi,         \* sales-vs-P&L page: the three metrics of the KPI row
    exc          \* the unhandled exception that ended the run, or "none"

vars == <<pc, uploaded, raw, df, colmap, messages, selected, daterange, filtered, agg,
          monthly, assumptions, fc, slider, pnl_file, merged, kpi, exc>>

----------------------------------------------------------------------------
(* Bounds of the model *)

Scale == 100          \* fixed-point units per 1.0
DaysPerMonth == 2     \* days of a model month
TicksPerDay == 2      \* instants of a model day (tick 0 is midnight)
MaxRows == 3          \* rows of a generated input table
MaxSeries == 13       \* rows of a generated one-row-per-month table

----------------------------------------------------------------------------
(* Cells and float arithmetic *)

Cell(k, v) == [k |-> k, v |-> v]
NaN == Cell("nan", 0)
PosInf == Cell("inf", 0)
NegInf == Cell("ninf", 0)
Num(x) == Cell("num", x)
Date(t) == Cell("date", t)
Text == Cell("text", 0)

\* a whole number of currency units as a float
Amount(n) == Num(n * Scale)

isna(c) == c.k = "nan"
notna(c) == ~isna(c)
IsFinite(c) == c.k = "num"
IsInfinite(c) == c.k \in {"inf", "ninf"}

Sign(c) ==
    CASE c.k = "inf" -> 1
      [] c.k = "ninf" -> -1
      [] c.k = "num" -> (IF c.v > 0 THEN 1 ELSE IF c.v < 0 THEN -1 ELSE 0)
      [] OTHER -> 0

Signed(s) == IF s > 0 THEN PosInf ELSE IF s < 0 THEN NegInf ELSE NaN

FNeg(a) ==
    CASE a.k = "num" -> Num(0 - a.v)
      [] a.k = "inf" -> NegInf
      [] a.k = "ninf" -> PosInf
      [] OTHER -> NaN

FAdd(a, b) ==
    CASE isna(a) \/ isna(b) -> NaN
      [] IsFinite(a) /\ IsFinite(b) -> Num(a.v + b.v)
      [] IsInfinite(a) /\ IsInfinite(b) -> (IF a.k = b.k THEN a ELSE NaN)
      [] IsInfinite(a) -> a
      [] OTHER -> b

FSub(a, b) == FAdd(a, FNeg(b))

FMul(a, b) ==
    CASE isna(a) \/ isna(b) -> NaN
      [] IsFinite(a) /\ IsFinite(b) ->
            Num((a.v \div Scale) * b.v + ((a.v % Scale) * b.v) \div Scale)
      [] OTHER -> Signed(Sign(a) * Sign(b))

FDiv(a, b) ==
    CASE isna(a) \/ isna(b) -> NaN
      [] IsInfinite(a) /\ IsInfinite(b) -> NaN
      [] IsInfinite(a) -> Signed(Sign(a) * (IF Sign(b) < 0 THEN -1 ELSE 1))
      [] IsInfinite(b) -> Num(0)
      [] b.v = 0 -> Signed(Sign(a))
      [] OTHER -> Num((a.v * Scale) \div b.v)

----------------------------------------------------------------------------
(* Calendar *)

TicksPerMonth == DaysPerMonth * TicksPerDay

\* timestamp of day d (0-based) and tick t of month m
Ts(m, d, t) == m * TicksPerMonth + d * TicksPerDay + t

MonthOf(t) == t \div TicksPerMonth
DayOf(t) == t \div TicksPerDay
YearOfMonth(m) == m \div 12
MonthNumber(m) == (m % 12) + 1

\* Timestamp.date() followed by pd.to_datetime: midnight of the same day
Midnight(t) == DayOf(t) * TicksPerDay

\* .dt.to_period('M').dt.to_timestamp(): first instant of the month
MonthStart(t) == MonthOf(t) * TicksPerMonth

\* 1970-01-01: what pd.to_datetime makes of a small number (nanoseconds)
EpochTs == Ts(1970 * 12, 0, 0)

----------------------------------------------------------------------------
(* Strings: a string is a sequence of one-character strings *)

None == <<"None">>

UpperChars == <<"A","B","C","D","E","F","G","H","I","J","K","L","M",
                "N","O","P","Q","R","S","T","U","V","W","X","Y","Z">>
LowerChars == <<"a","b","c","d","e","f","g","h","i","j","k","l","m",
                "n","o","p","q","r","s","t","u","v","w","x","y","z">>
Whitespace == {" "}

UpperToLower ==
    [ch \in {UpperChars[i] : i \in DOMAIN UpperChars} |->
        LowerChars[CHOOSE i \in DOMAIN UpperChars : UpperChars[i] = ch]]

LowerChar(ch) == IF ch \in DOMAIN UpperToLower THEN UpperToLower[ch] ELSE ch

\* str.lower()
lower(s) == [i \in DOMAIN s |-> LowerChar(s[i])]

RECURSIVE lstrip(_)
lstrip(s) == IF s # <<>> /\ Head(s) \in Whitespace THEN lstrip(Tail(s)) ELSE s

RECURSIVE rstrip(_)
rstrip(s) ==
    IF s # <<>> /\ s[Len(s)] \in Whitespace
    THEN rstrip(SubSeq(s, 1, Len(s) - 1))
    ELSE s

\* str.strip()
strip(s) == rstrip(lstrip(s))

\* sub in s, for strings
Contains(sub, s) ==
    \E i \in 1..(Len(s) - Len(sub) + 1) : SubSeq(s, i, i + Len(sub) - 1) = sub

\* x in list
In(x, list) == \E i \in DOMAIN list : list[i] = x

\* list.index(x): the first position of x
Index(list, x) ==
    CHOOSE i \in DOMAIN list : list[i] = x /\ \A j \in 1..(i - 1) : list[j] # x

----------------------------------------------------------------------------
(* String literals of the source *)

DateCandidates ==
    << <<"d","a","t","e">>,
       <<"s","a","l","e"," ","d","a","t","e">>,
       <<"s","o","l","d"," ","d","a","t","e">>,
       <<"t","r","a","n","s","a","c","t","i","o","n"," ","d","a","t","e">>,
       <<"t","r","a","n","s","a","c","t","i","o","n","_","d","a","t","e">>,
       <<"d","a","t","e","t","i","m","e">> >>

RevenueCandidates ==
    << <<"t","o","t","a","l">>,
       <<"a","m","o","u","n","t">>,
       <<"s","a","l","e"," ","a","m","o","u","n","t">>,
       <<"r","e","v","e","n","u","e">>,
       <<"s","a","l","e">>,
       <<"t","o","t","a","l"," ","s","a","l","e">>,
       <<"t","o","t","a","l","_","a","m","o","u","n","t">>,
       <<"g","r","a","n","d"," ","t","o","t","a","l">>,
       <<"g","r","a","n","d","_","t","o","t","a","l">> >>

RevenueSubstrings ==
    << <<"t","o","t","a","l">>,
       <<"a","m","o","u","n","t">>,
       <<"s","a","l","e">> >>

CostCandidates ==
    << <<"c","o","s","t">>,
       <<"u","n","i","t"," ","c","o","s","t">>,
       <<"c","o","g","s">>,
       <<"c","o","s","t","_","o","f","_","g","o","o","d","s">>,
       <<"c","o","s","t","_","o","f","_","g","o","o","d","s","_","s","o","l","d">> >>

TaxCandidates ==
    << <<"t","a","x">>,
       <<"s","a","l","e","s"," ","t","a","x">>,
       <<"t","a","x","_","a","m","o","u","n","t">> >>

ProfitCandidates ==
    << <<"p","r","o","f","i","t">>,
       <<"n","e","t">>,
       <<"g","r","o","s","s"," ","p","r","o","f","i","t">>,
       <<"p","r","o","f","i","t","_","w","i","t","h","o","u","t","_","t","a","x">> >>

cols_to_drop ==
    << <<"D","a","t","a">>,
       <<"I","n","v","o","i","c","e","#">>,
       <<"W","a","r","r","a","n","t","y","(","2","-","5","Y","r","s",")">>,
       <<"W","a","r","r","a","n","t","y"," ","2","-","5","Y","r","s","(","%",")">>,
       <<"T","o","t","a","l"," ","W","a","r","r","a","n","t","y">>,
       <<"D","e","l","i","v","e","r","y","?">>,
       <<"D","e","l","i","v","e","r","y"," ","F","e","e">>,
       <<"D","e","l","i","v","e","r","y"," ","F","e","e","/","I","t","e","m">>,
       <<"D","e","l","i","v","e","r","y"," ","D","a","t","e">>,
       <<"A","c","c","e","s","s","o","r","y","?">>,
       <<"A","c","c","e","s","s","o","r","y"," ","F","e","e">>,
       <<"A","c","c","e","s","s","o","r","y"," ","F","e","e","/","I","t","e","m">>,
       <<"C","u","s","t","o","m","e","r">>,
       <<"C","a","s","h","i","e","r">>,
       <<"S","o","u","r","c","e">>,
       <<"S","t","o","r","e">>,
       <<"P","O","3","A","-","I","D">> >>

S_Month == <<"M","o","n","t","h">>
S_Year == <<"Y","e","a","r">>
S_GrossProfit == <<"G","r","o","s","s"," ","P","r","o","f","i","t","(","w","/","o"," ","T","a","x",")">>
S_GrandTotal == <<"G","r","a","n","d"," ","T","o","t","a","l">>
S_profit == <<"_","_","p","r","o","f","i","t">>
S_revenue == <<"_","_","r","e","v","e","n","u","e">>
S_date == <<"_","_","d","a","t","e">>
S_cost == <<"_","_","c","o","s","t">>
S_tax == <<"_","_","t","a","x">>
S_year == <<"y","e","a","r">>
S_month == <<"m","o","n","t","h">>
S_month_start == <<"m","o","n","t","h","_","s","t","a","r","t">>
S_source_file == <<"_","_","s","o","u","r","c","e","_","f","i","l","e">>

----------------------------------------------------------------------------
(* Tables *)

\* the elements of a finite set of integers, ascending
RECURSIVE SortedSeq(_)
SortedSeq(S) ==
    IF S = {} THEN <<>>
    ELSE LET m == CHOOSE x \in S : \A y \in S : x <= y
         IN <<m>> \o SortedSeq(S \ {m})

NoTable == [cols |-> <<>>, rows |-> <<>>]

\* name in t.columns
HasCol(t, name) == In(name, t.cols)

\* t[name] selects more than one column
Ambiguous(t, name) == Cardinality({i \in DOMAIN t.cols : t.cols[i] = name}) > 1

\* t[name]: the cells of the column, one per row
Column(t, name) == [r \in DOMAIN t.rows |-> t.rows[r][Index(t.cols, name)]]

\* t[name] = vals: replace the column in place, or append it
Assign(t, name, vals) ==
    IF HasCol(t, name)
    THEN [cols |-> t.cols,
          rows |-> [r \in DOMAIN t.rows |->
                      [t.rows[r] EXCEPT ![Index(t.cols, name)] = vals[r]]]]
    ELSE [cols |-> Append(t.cols, name),
          rows |-> [r \in DOMAIN t.rows |-> Append(t.rows[r], vals[r])]]

\* t.drop(columns=[c for c in names if c in t.columns])
Drop(t, names) ==
    LET keep == SortedSeq({i \in DOMAIN t.cols : ~In(t.cols[i], names)})
    IN [cols |-> [j \in DOMAIN keep |-> t.cols[keep[j]]],
        rows |-> [r \in DOMAIN t.rows |->
                    [j \in DOMAIN keep |-> t.rows[r][keep[j]]]]]

\* t.loc[mask]
Loc(t, mask) ==
    LET keep == SortedSeq({r \in DOMAIN t.rows : mask[r]})
    IN [cols |-> t.cols, rows |-> [j \in DOMAIN keep |-> t.rows[keep[j]]]]

\* series.isna().all()
AllNa(col) == \A r \in DOMAIN col : isna(col[r])

----------------------------------------------------------------------------
(* Coercions *)

\* one cell of pd.to_datetime(col, errors='coerce')
ToDatetimeCell(c) ==
    CASE c.k = "date" -> c
      [] c.k = "num" -> Date(EpochTs)
      [] OTHER -> NaN

\* one cell of pd.to_numeric(col, errors='coerce')
ToNumericCell(c) ==
    CASE c.k \in {"num", "inf", "ninf"} -> c
      [] OTHER -> NaN

to_datetime(col) == [i_ \in DOMAIN col |-> ToDatetimeCell(col[i_])]
to_numeric(col) == [i_ \in DOMAIN col |-> ToNumericCell(col[i_])]

\* pd.to_datetime(t[name]) without errors='coerce' returns instead of raising
Parseable(t, name) ==
    /\ ~Ambiguous(t, name)
    /\ \A r \in DOMAIN t.rows : Column(t, name)[r].k # "text"

\* series.dt.year
YearCell(c) == IF c.k = "date" THEN Amount(YearOfMonth(MonthOf(c.v))) ELSE NaN

YearColumn(col) == [i_ \in DOMAIN col |-> YearCell(col[i_])]

\* series.dt.to_period('M').astype(str)
PeriodCell(c) == IF c.k = "date" THEN Cell("text", MonthOf(c.v)) ELSE Text

\* series.dt.to_period('M').dt.to_timestamp()
MonthStartCell(c) == IF c.k = "date" THEN Date(MonthStart(c.v)) ELSE NaN

----------------------------------------------------------------------------
(* dashboard_app.py: custom cleanup and infer_and_prepare *)

W_NoDate == "No date column detected"
W_NoRevenue == "No revenue column detected automatically"
W_NoData == "No data loaded yet"
I_NoKpi == "Not enough data to compute KPIs"

\* raw after the custom cleanup for the fixed-format file
custom_cleanup(t) ==
    LET t1 == Drop(t, cols_to_drop)
        t2 == IF HasCol(t1, S_Month)
              THEN Assign(t1, S_Year, YearColumn(to_datetime(Column(t1, S_Month))))
              ELSE t1
        t3 == IF HasCol(t2, S_GrossProfit)
              THEN Assign(t2, S_profit, to_numeric(Column(t2, S_GrossProfit)))
              ELSE t2
    IN IF HasCol(t3, S_GrandTotal)
       THEN Assign(t3, S_revenue, to_numeric(Column(t3, S_GrandTotal)))
       ELSE t3

\* MatchExact walking the columns first: the first column that equals any candidate
MatchExact_by_column(cands, columns, cols_lower) ==
    IF \A i \in DOMAIN cols_lower : ~In(cols_lower[i], cands) THEN None
    ELSE columns[CHOOSE i \in DOMAIN cols_lower :
                    /\ In(cols_lower[i], cands)
                    /\ \A j \in 1..(i - 1) : ~In(cols_lower[j], cands)]

\* for candidate in cands: if candidate in cols_lower:
\*     col = columns[cols_lower.index(candidate)]; break
RECURSIVE MatchExact(_, _, _)
MatchExact(cands, columns, cols_lower) ==
    IF cands = <<>> THEN None
    ELSE IF In(Head(cands), cols_lower)
         THEN columns[Index(cols_lower, Head(cands))]
         ELSE MatchExact(Tail(cands), columns, cols_lower)

\* 'total' in c or 'amount' in c or 'sale' in c
RevenueLike(c) ==
    \E k \in DOMAIN RevenueSubstrings : Contains(RevenueSubstrings[k], c)

\* for i, c in enumerate(cols_lower): if RevenueLike(c): col = columns[i]; break
RECURSIVE MatchSubstring(_, _, _)
MatchSubstring(i, columns, cols_lower) ==
    IF i > Len(cols_lower) THEN None
    ELSE IF RevenueLike(cols_lower[i]) THEN columns[i]
         ELSE MatchSubstring(i + 1, columns, cols_lower)

\* for c in df.columns: try: pd.to_datetime(df[c]); col = c; break
RECURSIVE FirstParseable(_, _)
FirstParseable(i, t) ==
    IF i > Len(t.cols) THEN None
    ELSE IF Parseable(t, t.cols[i]) THEN t.cols[i]
         ELSE FirstParseable(i + 1, t)

infer_date(t, cols_lower) ==
    LET exact == MatchExact(DateCandidates, t.cols, cols_lower)
    IN IF exact # None THEN exact ELSE FirstParseable(1, t)

infer_revenue(t, cols_lower) ==
    LET exact == MatchExact(RevenueCandidates, t.cols, cols_lower)
    IN IF exact # None THEN exact ELSE MatchSubstring(1, t.cols, cols_lower)

\* the ColumnMap of a table whose column names are already stripped
infer(t) ==
    LET cols_lower == [i_ \in DOMAIN t.cols |-> lower(t.cols[i_])]
    IN [date    |-> infer_date(t, cols_lower),
        revenue |-> infer_revenue(t, cols_lower),
        cost    |-> MatchExact(CostCandidates, t.cols, cols_lower),
        tax     |-> MatchExact(TaxCandidates, t.cols, cols_lower),
        profit  |-> MatchExact(ProfitCandidates, t.cols, cols_lower)]

\* derive_profit without the test for a profit column that has values
derive_profit_always(t) ==
    IF HasCol(t, S_revenue) /\ HasCol(t, S_cost)
    THEN Assign(t, S_profit,
           [r \in DOMAIN t.rows |->
              IF HasCol(t, S_tax)
              THEN FSub(FSub(Column(t, S_revenue)[r], Column(t, S_cost)[r]),
                        Column(t, S_tax)[r])
              ELSE FSub(Column(t, S_revenue)[r], Column(t, S_cost)[r])])
    ELSE Assign(t, S_profit,
           IF HasCol(t, S_profit)
           THEN to_numeric(Column(t, S_profit))
           ELSE [r \in DOMAIN t.rows |-> NaN])

\* "If profit not present but revenue and cost present, compute profit_without_tax"
derive_profit(t) ==
    IF ~HasCol(t, S_profit) \/ AllNa(Column(t, S_profit))
    THEN IF HasCol(t, S_revenue) /\ HasCol(t, S_cost)
         THEN IF HasCol(t, S_tax)
              THEN Assign(t, S_profit,
                     [r \in DOMAIN t.rows |->
                        FSub(FSub(Column(t, S_revenue)[r], Column(t, S_cost)[r]),
                             Column(t, S_tax)[r])])
              ELSE Assign(t, S_profit,
                     [r \in DOMAIN t.rows |->
                        FSub(Column(t, S_revenue)[r], Column(t, S_cost)[r])])
         ELSE Assign(t, S_profit,
                IF HasCol(t, S_profit)
                THEN to_numeric(Column(t, S_profit))
                ELSE [r \in DOMAIN t.rows |-> NaN])
    ELSE t

\* year, month, month_start from __date
helpful_columns(t) ==
    IF HasCol(t, S_date)
    THEN LET d == Column(t, S_date)
             t1 == Assign(t, S_year, [i_ \in DOMAIN d |-> YearCell(d[i_])])
             t2 == Assign(t1, S_month, [i_ \in DOMAIN d |-> PeriodCell(d[i_])])
         IN Assign(t2, S_month_start, [i_ \in DOMAIN d |-> MonthStartCell(d[i_])])
    ELSE t

\* df[name] = pd.to_numeric(df[col], errors='coerce') when col was found
coerce_into(t, name, col) ==
    IF col = None THEN t ELSE Assign(t, name, to_numeric(Column(t, col)))

\* infer_and_prepare(df): the prepared table, the ColumnMap, the warnings issued
\* and the exception raised (selecting a doubled column name yields a DataFrame,
\* which pd.to_datetime and pd.to_numeric reject)
infer_and_prepare(t0) ==
    LET t == [cols |-> [i_ \in DOMAIN t0.cols |-> strip(t0.cols[i_])], rows |-> t0.rows]
        cm == infer(t)
        t1 == IF cm.date = None THEN t
              ELSE Assign(t, S_date, to_datetime(Column(t, cm.date)))
        t2 == coerce_into(t1, S_revenue, cm.revenue)
        t3 == coerce_into(t2, S_cost, cm.cost)
        t4 == coerce_into(t3, S_tax, cm.tax)
        t5 == coerce_into(t4, S_profit, cm.profit)
        raised ==
            IF cm.date # None /\ Ambiguous(t, cm.date) THEN "ValueError"
            ELSE IF \E role \in {"revenue", "cost", "tax", "profit"} :
                       cm[role] # None /\ Ambiguous(t, cm[role])
                 THEN "TypeError"
                 ELSE "none"
    IN [df       |-> IF raised = "none" THEN helpful_columns(derive_profit(t5))
                     ELSE NoTable,
        colmap   |-> cm,
        warnings |-> (IF cm.date = None THEN {W_NoDate} ELSE {})
                     \cup (IF cm.revenue = None /\ raised # "ValueError"
                           THEN {W_NoRevenue} ELSE {}),
        exc      |-> raised]

----------------------------------------------------------------------------
(* dashboard_app.py: column overrides, date filter, monthly aggregate, growth *)

LagPeriods == 12

\* datetime.today().date(), as a day number
Today == DayOf(Ts(2026 * 12 + 10, 0, 0))

DefaultSelection == [date |-> S_date, revenue |-> S_revenue, profit |-> S_profit]
DefaultRange == [custom |-> FALSE, start |-> 0, end |-> 0]

\* "Let user override detected columns if needed"
apply_overrides(d, t, sel) ==
    LET d1 == IF sel.date # S_date
              THEN helpful_columns(Assign(d, S_date, to_datetime(Column(t, sel.date))))
              ELSE d
        d2 == IF sel.revenue # S_revenue
              THEN Assign(d1, S_revenue, to_numeric(Column(t, sel.revenue)))
              ELSE d1
    IN IF sel.profit # S_profit /\ HasCol(t, sel.profit)
       THEN Assign(d2, S_profit, to_numeric(Column(t, sel.profit)))
       ELSE d2

\* the timestamps of a datetime column, NaT skipped
Stamps(col) == {col[r].v : r \in {q \in DOMAIN col : col[q].k = "date"}}

\* series.min() / series.max() of a datetime column: NaT when nothing is left
min_date(col) ==
    IF Stamps(col) = {} THEN NaN
    ELSE Date(CHOOSE x \in Stamps(col) : \A y \in Stamps(col) : x <= y)
max_date(col) ==
    IF Stamps(col) = {} THEN NaN
    ELSE Date(CHOOSE x \in Stamps(col) : \A y \in Stamps(col) : x >= y)

\* value=[min_date.date() if pd.notna(min_date) else today, max_date.date() ...]
default_range(col) ==
    [start |-> IF notna(min_date(col)) THEN DayOf(min_date(col).v) ELSE Today,
     end   |-> IF notna(max_date(col)) THEN DayOf(max_date(col).v) ELSE Today]

\* (df['__date'] >= pd.to_datetime(start_dt)) & (df['__date'] <= pd.to_datetime(end_dt))
date_mask(col, start_dt, end_dt) ==
    [r \in DOMAIN col |->
        /\ col[r].k = "date"
        /\ col[r].v >= start_dt * TicksPerDay
        /\ col[r].v <= end_dt * TicksPerDay]

\* NanSum with skipna=False: one NaN makes the sum NaN
RECURSIVE NanSum_keepna(_)
NanSum_keepna(cells) ==
    IF cells = <<>> THEN Num(0)
    ELSE FAdd(Head(cells), NanSum_keepna(Tail(cells)))

\* sum of a column, NaN skipped; 0 for nothing
RECURSIVE NanSum(_)
NanSum(cells) ==
    IF cells = <<>> THEN Num(0)
    ELSE IF isna(Head(cells)) THEN NanSum(Tail(cells))
         ELSE FAdd(Head(cells), NanSum(Tail(cells)))

\* the cells of column name in the rows whose month_start is ms
GroupCells(t, name, ms) ==
    LET rs == SortedSeq({r \in DOMAIN t.rows : Column(t, S_month_start)[r] = Date(ms)})
    IN [j \in DOMAIN rs |-> Column(t, name)[rs[j]]]

\* groupby_month grouping by '__date' instead of 'month_start'
groupby_month_by_date(t) ==
    LET keys == SortedSeq(Stamps(Column(t, S_date)))
    IN [i \in DOMAIN keys |->
          [month_start |-> keys[i],
           revenue     |-> NanSum(SelectSeq([r \in DOMAIN t.rows |->
                                  IF Column(t, S_date)[r] = Date(keys[i])
                                  THEN Column(t, S_revenue)[r] ELSE NaN], notna)),
           profit      |-> NanSum(SelectSeq([r \in DOMAIN t.rows |->
                                  IF Column(t, S_date)[r] = Date(keys[i])
                                  THEN Column(t, S_profit)[r] ELSE NaN], notna))]]

\* filtered.groupby('month_start').agg(revenue=sum, profit=sum)
\*         .reset_index().sort_values('month_start')
groupby_month(t) ==
    LET keys == SortedSeq(Stamps(Column(t, S_month_start)))
    IN [i \in DOMAIN keys |->
          [month_start |-> keys[i],
           revenue     |-> NanSum(GroupCells(t, S_revenue, keys[i])),
           profit      |-> NanSum(GroupCells(t, S_profit, keys[i]))]]

\* series.shift(1)
shift1(a, field, i) == IF i > 1 THEN a[i - 1][field] ELSE NaN

\* a.groupby('month_number')[field].shift(n): n places back among the rows
\* that have row i's month_number
group_shift(a, field, n, i) ==
    LET g == SortedSeq({j \in DOMAIN a :
                 MonthNumber(MonthOf(a[j].month_start))
                   = MonthNumber(MonthOf(a[i].month_start))})
        p == Index(g, i)
    IN IF p > n THEN a[g[p - n]][field] ELSE NaN

\* (cur - prev) / prev * 100
pct_change(cur, prev) == FMul(FDiv(FSub(cur, prev), prev), Amount(100))

\* the MoM and YoY columns added to agg
with_growth(a) ==
    [i \in DOMAIN a |->
        LET revenue_prev == shift1(a, "revenue", i)
            profit_prev == shift1(a, "profit", i)
            revenue_lag_12 == group_shift(a, "revenue", LagPeriods, i)
        IN [month_start     |-> a[i].month_start,
            revenue         |-> a[i].revenue,
            profit          |-> a[i].profit,
            revenue_prev    |-> revenue_prev,
            revenue_mom_pct |-> pct_change(a[i].revenue, revenue_prev),
            profit_prev     |-> profit_prev,
            profit_mom_pct  |-> pct_change(a[i].profit, profit_prev),
            month_number    |-> MonthNumber(MonthOf(a[i].month_start)),
            year            |-> YearOfMonth(MonthOf(a[i].month_start)),
            revenue_lag_12  |-> revenue_lag_12,
            revenue_yoy_pct |-> pct_change(a[i].revenue, revenue_lag_12)]]

----------------------------------------------------------------------------
(* dashboard_app.py: one run of the script *)

NoMap == [date |-> None, revenue |-> None, cost |-> None, tax |-> None,
          profit |-> None]

Outcome(p, t, d, cm, msgs, r, f, a, e) ==
    [pc |-> p, raw |-> t, df |-> d, colmap |-> cm, messages |-> msgs,
     daterange |-> r, filtered |-> f, agg |-> a, exc |-> e]

\* The script, section by section; every section hands what it computed to the
\* next one.  sel are the column overrides and rng the date range of the widgets.

\* "KPI row" (lines 246-259)
kpi_section(t, prep, d, r, f, a) ==
    Outcome("rendered", t, d, prep.colmap,
            prep.warnings \cup (IF a = <<>> THEN {I_NoKpi} ELSE {}),
            r, f, a, "none")

\* "compute KPIs", "MoM growth", "YoY revenue" (lines 226-240)
aggregate_section(t, prep, d, r, f) ==
    IF ~HasCol(f, S_month_start) \/ ~HasCol(f, S_revenue) \/ ~HasCol(f, S_profit)
    THEN Outcome("error", t, d, prep.colmap, prep.warnings, r, f, <<>>,
                 "KeyError: '__revenue'")
    ELSE kpi_section(t, prep, d, r, f, with_growth(groupby_month(f)))

\* mask and filtered (lines 209-210)
mask_section(t, prep, d, r) ==
    aggregate_section(t, prep, d, r,
                      Loc(d, date_mask(Column(d, S_date), r.start, r.end)))

\* "Filters" (lines 202-207): start_dt, end_dt are the widget's value, which is
\* [min_date, max_date] until the user picks a range
filter_section(t, prep, d, rng) ==
    IF ~HasCol(d, S_date)
    THEN Outcome("error", t, d, prep.colmap, prep.warnings, rng, NoTable, <<>>,
                 "KeyError: '__date'")
    ELSE mask_section(t, prep, d,
                      IF rng.custom THEN rng
                      ELSE [custom |-> FALSE,
                            start |-> default_range(Column(d, S_date)).start,
                            end |-> default_range(Column(d, S_date)).end])

\* "Let user override detected columns if needed" (lines 183-200)
override_section(t, prep, sel, rng) ==
    IF prep.exc # "none"
    THEN Outcome("error", t, NoTable, prep.colmap, prep.warnings, rng, NoTable, <<>>,
                 prep.exc)
    ELSE filter_section(t, prep, apply_overrides(prep.df, t, sel), rng)

\* df = infer_and_prepare(raw) (line 181)
prepare_section(t, sel, rng) == override_section(t, infer_and_prepare(t), sel, rng)

\* from the loaded files on (lines 145-173)
Script(file, sel, rng) ==
    IF file.cols = <<>>
    THEN Outcome("stopped", file, NoTable, NoMap, {W_NoData}, rng, NoTable, <<>>,
                 "none")
    ELSE prepare_section(custom_cleanup(file), sel, rng)

\* the state after a run that ended as out
Show(out, sel) ==
    /\ pc' = out.pc
    /\ raw' = out.raw
    /\ df' = out.df
    /\ colmap' = out.colmap
    /\ messages' = out.messages
    /\ filtered' = out.filtered
    /\ agg' = out.agg
    /\ exc' = out.exc
    /\ selected' = sel
    /\ daterange' = out.daterange
    /\ UNCHANGED <<uploaded, monthly, assumptions, fc, slider, pnl_file, merged, kpi>>

\* Streamlit reruns the whole script with the widgets' values
Rerun(sel, rng) == Show(Script(uploaded, sel, rng), sel)

\* the first run after the files are loaded: every widget at its default
Run ==
    /\ pc = "loaded"
    /\ Rerun(DefaultSelection, DefaultRange)

\* the user changes one of the three "Column overrides" selectboxes
SelectColumn ==
    /\ pc \in {"rendered", "error"}
    /\ exc \notin {"ValueError", "TypeError"}
    /\ \E role \in {"date", "revenue", "profit"} :
         \E i \in 0..Len(raw.cols) :
            LET choice == IF i = 0 THEN DefaultSelection[role] ELSE raw.cols[i]
            IN /\ choice # selected[role]
               /\ Rerun([selected EXCEPT ![role] = choice], daterange)

\* the user picks a date range in the sidebar date_input
PickDateRange ==
    /\ pc \in {"rendered", "error"}
    /\ exc \in {"none", "KeyError: '__revenue'"}
    /\ LET days == {DayOf(x) : x \in Stamps(Column(df, S_date))} \cup {Today}
       IN \E a \in days, b \in days :
            /\ a <= b
            /\ Rerun(selected, [custom |-> TRUE, start |-> a, end |-> b])

----------------------------------------------------------------------------
(* Input tables *)

N_Date == <<"D","a","t","e">>
N_Total == <<"T","o","t","a","l">>

\* December of one year and January of the next
FirstMonth == 2024 * 12 + 11

\* the rows whose cell j is drawn from pools[j]
RECURSIVE RowsOf(_)
RowsOf(pools) ==
    IF pools = <<>> THEN {<<>>}
    ELSE {<<c>> \o r : c \in Head(pools), r \in RowsOf(Tail(pools))}

\* the tables of the given columns with at most n such rows

TablesOf(cols, pools, n) ==
    {[cols |-> cols, rows |-> rows] :
        rows \in UNION {[1..k -> RowsOf(pools)] : k \in 0..n}}

DateCells ==
    {Text,
     Date(Ts(FirstMonth, 0, 0)),
     Date(Ts(FirstMonth, DaysPerMonth - 1, TicksPerDay - 1)),
     Date(Ts(FirstMonth + 1, 0, 0))}

RevenueCells == {Text, Amount(2)}

\* a sales file with a date and a revenue column
SalesTables ==
    TablesOf(<<N_Date, N_Total, S_source_file>>,
             <<DateCells, RevenueCells, {Text}>>, MaxRows)

\* one row per month: n rows, stride months apart, from month first on; the revenue
\* of the rows 1, 2 and n is drawn from SeriesRevenue, every other row has 100
SeriesFirstMonth == 2013 * 12

SeriesRevenue == {Amount(0), Amount(100), Amount(250)}

SeriesTables ==
    {[cols |-> <<N_Date, N_Total, S_source_file>>,
      rows |-> [i \in 1..n |->
                  <<Date(Ts(SeriesFirstMonth + (i - 1) * stride, 0, 0)),
                    IF i = 1 THEN v[1] ELSE IF i = 2 THEN v[2]
                    ELSE IF i = n THEN v[3] ELSE Amount(100),
                    Text>>]] :
        n \in 1..MaxSeries, stride \in {1, LagPeriods}, v \in [1..3 -> SeriesRevenue]}

\* st.slider(min_value=-10.0, max_value=20.0, value=3.0) of the forecast page
SliderMin == -10
SliderMax == 20
SliderDefault == 3

NoAssumptions == [avg_margin |-> NaN, avg_monthly_revenue |-> NaN, growth |-> NaN]

\* the KPI row of the sales-vs-P&L page before it is rendered
NoKpi == [avg_overhead |-> NaN, best |-> NaN, worst |-> NaN]

InitWith(tables) ==
    /\ uploaded \in tables
    /\ pc = "loaded"
    /\ raw = NoTable
    /\ df = NoTable
    /\ colmap = NoMap
    /\ messages = {}
    /\ selected = DefaultSelection
    /\ daterange = DefaultRange
    /\ filtered = NoTable
    /\ agg = <<>>
    /\ monthly = <<>>
    /\ assumptions = NoAssumptions
    /\ fc = <<>>
    /\ slider = SliderDefault
    /\ pnl_file = NoTable
    /\ merged = <<>>
    /\ kpi = NoKpi
    /\ exc = "none"

Init == InitWith(SalesTables \cup {NoTable})

Next == Run \/ PickDateRange

Spec == Init /\ [][Next]_vars

----------------------------------------------------------------------------
(* Claims about the monthly aggregate of the dashboard *)

\* __date and __revenue of row r of the prepared table
DateAt(r) == Column(df, S_date)[r]
RevenueAt(r) == Column(df, S_revenue)[r]

\* row r has a date, and the date lies between midnight of start_dt and
\* midnight of end_dt
InFilter(r) ==
    /\ DateAt(r).k = "date"
    /\ daterange.start * TicksPerDay <= DateAt(r).v
    /\ DateAt(r).v <= daterange.end * TicksPerDay

RECURSIVE SumOver(_, _)
SumOver(S, f) ==
    IF S = {} THEN 0
    ELSE LET x == CHOOSE y \in S : TRUE IN f[x] + SumOver(S \ {x}, f)

AggTotal == SumOver(DOMAIN agg, [i \in DOMAIN agg |-> agg[i].revenue.v])

RowTotal ==
    SumOver({r \in DOMAIN df.rows : InFilter(r) /\ RevenueAt(r).k = "num"},
            [r \in DOMAIN df.rows |-> RevenueAt(r).v])

----------------------------------------------------------------------------
(* Month-over-month and year-over-year growth of the dashboard *)

InitSeries == InitWith(SeriesTables)

NextSeries == Run

SpecSeries == InitSeries /\ [][NextSeries]_vars

\* x is zero or null
ZeroOrNull(x) == isna(x) \/ (x.k = "num" /\ x.v = 0)

\* (cur - prev) / prev * 100 for finite cur and non-zero finite prev
PctOf(cur, prev) == Num((((cur.v - prev.v) * Scale) \div prev.v) * 100)

\* C3: revenue_mom_pct (and profit_mom_pct) of a monthly row is null when the row
\* is the first one or the previous row's sum is zero or null, and is
\* (current - previous) / previous * 100 otherwise; it is never infinite.
C3_MomNullOnZero ==
    pc = "rendered" =>
        \A i \in DOMAIN agg :
            /\ IF i = 1 \/ ZeroOrNull(agg[i - 1].revenue)
               THEN isna(agg[i].revenue_mom_pct)
               ELSE agg[i].revenue_mom_pct = PctOf(agg[i].revenue, agg[i - 1].revenue)
            /\ IF i = 1 \/ ZeroOrNull(agg[i - 1].profit)
               THEN isna(agg[i].profit_mom_pct)
               ELSE agg[i].profit_mom_pct = PctOf(agg[i].profit, agg[i - 1].profit)
            /\ ~IsInfinite(agg[i].revenue_mom_pct)
            /\ ~IsInfinite(agg[i].profit_mom_pct)

\* C4: revenue_yoy_pct of the monthly row at position i is
\* (revenue_i - revenue_{i-12}) / revenue_{i-12} * 100 when there is a row 12
\* positions earlier with the same calendar month number and non-zero revenue,
\* and null in every other case; so every month of the second year of a gap-free
\* series is compared to the same month of the first year.
C4_YoyTwelveRowsBack ==
    pc = "rendered" =>
        \A i \in DOMAIN agg :
            IF /\ i > LagPeriods
               /\ agg[i - LagPeriods].month_number = agg[i].month_number
               /\ ~ZeroOrNull(agg[i - LagPeriods].revenue)
            THEN agg[i].revenue_yoy_pct
                   = PctOf(agg[i].revenue, agg[i - LagPeriods].revenue)
            ELSE isna(agg[i].revenue_yoy_pct)

----------------------------------------------------------------------------
(* pages/4_2026_Forecast.py *)

S_Revenue == <<"R","e","v","e","n","u","e">>
S_Profit == <<"P","r","o","f","i","t">>

I_Upload == "Upload sales data to generate forecast."

\* pd.date_range("2026-01-01", "2026-12-01", freq="MS")
ForecastFirst == 2026 * 12
ForecastLast == 2026 * 12 + 11

\* pd.date_range(first, last, freq="MS"): the month starts from first to last
date_range(first, last) == [i \in 1..(last - first + 1) |-> Ts(first + i - 1, 0, 0)]

\* df = df[df["Month"].notna()]; Month, Revenue, Profit coerced (lines 25-29)
load_sales(file) ==
    LET kept == Loc(file, [r \in DOMAIN file.rows |-> notna(Column(file, S_Month)[r])])
    IN Assign(Assign(Assign(kept,
                            S_Month, to_datetime(Column(kept, S_Month))),
                     S_Revenue, to_numeric(Column(kept, S_GrandTotal))),
              S_Profit, to_numeric(Column(kept, S_GrossProfit)))

\* the cells of column name in the rows whose Month lies in month m
PeriodCells(t, name, m) ==
    LET rs == SortedSeq({r \in DOMAIN t.rows :
                           /\ Column(t, S_Month)[r].k = "date"
                           /\ MonthOf(Column(t, S_Month)[r].v) = m})
    IN [j \in DOMAIN rs |-> Column(t, name)[rs[j]]]

\* df.groupby(df["Month"].dt.to_period("M")).agg(Revenue=sum, Profit=sum)
\*   .reset_index(), Month back to a timestamp (lines 31-39)
groupby_period(t) ==
    LET keys == SortedSeq({MonthOf(x) : x \in Stamps(Column(t, S_Month))})
    IN [i \in DOMAIN keys |->
          [Month   |-> Ts(keys[i], 0, 0),
           Revenue |-> NanSum(PeriodCells(t, S_Revenue, keys[i])),
           Profit  |-> NanSum(PeriodCells(t, S_Profit, keys[i]))]]

\* series.mean(): NaN skipped, NaN for nothing, infinities kept
SelectNotna(cells) == SelectSeq(cells, notna)

Mean(cells) ==
    IF SelectNotna(cells) = <<>> THEN NaN
    ELSE FDiv(NanSum(cells), Amount(Len(SelectNotna(cells))))

\* the forecast loop restarting from the average in every month
forecast_loop_reset(avg_monthly_revenue, growth, avg_margin, future_months) ==
    [i \in DOMAIN future_months |->
        [Month            |-> future_months[i],
         Forecast_Revenue |-> FMul(avg_monthly_revenue, FAdd(Amount(1), growth)),
         Forecast_Profit  |-> FMul(FMul(avg_monthly_revenue, FAdd(Amount(1), growth)),
                                   avg_margin)]]

\* rev = avg_monthly_revenue; for m in future_months: rev *= (1 + growth);
\* profit = rev * avg_margin; forecast.append([m, rev, profit])  (lines 56-60)
RECURSIVE forecast_loop(_, _, _, _)
forecast_loop(rev, growth, avg_margin, future_months) ==
    IF future_months = <<>> THEN <<>>
    ELSE <<[Month            |-> Head(future_months),
            Forecast_Revenue |-> FMul(rev, FAdd(Amount(1), growth)),
            Forecast_Profit  |-> FMul(FMul(rev, FAdd(Amount(1), growth)), avg_margin)]>>
         \o forecast_loop(FMul(rev, FAdd(Amount(1), growth)), growth, avg_margin,
                          Tail(future_months))

PageOutcome(p, d, mon, a, f, msgs, e) ==
    [pc |-> p, df |-> d, monthly |-> mon, assumptions |-> a, fc |-> f,
     messages |-> msgs, exc |-> e]

\* "Forecast" (lines 52-64)
forecast_section(d, mon, avg_margin, avg_monthly_revenue, growth) ==
    PageOutcome("rendered", d, mon,
                [avg_margin |-> avg_margin,
                 avg_monthly_revenue |-> avg_monthly_revenue,
                 growth |-> growth],
                forecast_loop(avg_monthly_revenue, growth, avg_margin,
                              date_range(ForecastFirst, ForecastLast)),
                {}, "none")

\* "Assumptions" (lines 41-50)
assumptions_section(d, mon, pct) ==
    forecast_section(d, mon,
                     Mean([i \in DOMAIN mon |-> FDiv(mon[i].Profit, mon[i].Revenue)]),
                     Mean([i \in DOMAIN mon |-> mon[i].Revenue]),
                     FDiv(Amount(pct), Amount(100)))

\* monthly (lines 31-39)
monthly_section(d, pct) == assumptions_section(d, groupby_period(d), pct)

\* the column a line of the load step indexes without finding it
missing_column(file) ==
    IF ~HasCol(file, S_Month) THEN "KeyError: 'Month'"
    ELSE IF ~HasCol(file, S_GrandTotal) THEN "KeyError: 'Grand Total'"
    ELSE IF ~HasCol(file, S_GrossProfit) THEN "KeyError: 'Gross Profit(w/o Tax)'"
    ELSE "none"

\* the page from the uploader on (lines 15-77); pct is the slider's value
ForecastPage(file, pct) ==
    IF file = NoTable
    THEN PageOutcome("stopped", NoTable, <<>>, NoAssumptions, <<>>, {I_Upload}, "none")
    ELSE IF missing_column(file) # "none"
    THEN PageOutcome("error", file, <<>>, NoAssumptions, <<>>, {}, missing_column(file))
    ELSE monthly_section(load_sales(file), pct)

ShowPage(out, pct) ==
    /\ pc' = out.pc
    /\ df' = out.df
    /\ monthly' = out.monthly
    /\ assumptions' = out.assumptions
    /\ fc' = out.fc
    /\ messages' = out.messages
    /\ exc' = out.exc
    /\ slider' = pct
    /\ UNCHANGED <<uploaded, raw, colmap, selected, daterange, filtered, agg,
                   pnl_file, merged, kpi>>

\* the first run of the page: the slider at its default
RunForecast ==
    /\ pc = "loaded"
    /\ ShowPage(ForecastPage(uploaded, SliderDefault), SliderDefault)

\* the positions of the slider the model tries
SliderValues == {SliderMin, 0, SliderDefault, SliderMax}

\* the user moves the slider, which reruns the page
SlideGrowth ==
    /\ pc = "rendered"
    /\ \E pct \in SliderValues :
          /\ pct # slider
          /\ ShowPage(ForecastPage(uploaded, pct), pct)

\* sales summaries: the three required columns, or one of them missing
MonthCells == {NaN, Date(Ts(FirstMonth, 0, 0)), Date(Ts(FirstMonth + 1, 0, 0))}
GrandTotalCells == {Amount(0), Amount(10000)}
GrossProfitCells == {Text, Amount(2000)}

SummaryTables ==
    TablesOf(<<S_Month, S_GrandTotal, S_GrossProfit>>,
             <<MonthCells, GrandTotalCells, GrossProfitCells>>, MaxRows)
    \cup TablesOf(<<S_GrandTotal, S_GrossProfit>>,
                  <<GrandTotalCells, GrossProfitCells>>, 1)
    \cup TablesOf(<<S_Month, S_GrossProfit>>, <<MonthCells, GrossProfitCells>>, 1)
    \cup TablesOf(<<S_Month, S_GrandTotal>>, <<MonthCells, GrandTotalCells>>, 1)

InitForecast == InitWith(SummaryTables \cup {NoTable})

NextForecast == RunForecast \/ SlideGrowth

SpecForecast == InitForecast /\ [][NextForecast]_vars

----------------------------------------------------------------------------
(* Claims about the forecast page *)

\* 1 + growth_rate
GrowthFactor == FAdd(Amount(1), assumptions.growth)

\* C5: the forecast has exactly 12 points for consecutive calendar months; the
\* first point's revenue is avg_monthly_revenue * (1 + growth), every later
\* point's revenue is the previous point's revenue * (1 + growth), and every
\* point's profit is its revenue * avg_margin.
C5_ForecastCompounds ==
    pc = "rendered" =>
        /\ Len(fc) = 12
        /\ \A i \in DOMAIN fc :
              /\ fc[i].Month = MonthStart(fc[i].Month)
              /\ i > 1 => MonthOf(fc[i].Month) = MonthOf(fc[i - 1].Month) + 1
              /\ fc[i].Forecast_Revenue =
                    FMul(IF i = 1 THEN assumptions.avg_monthly_revenue
                         ELSE fc[i - 1].Forecast_Revenue,
                         GrowthFactor)
              /\ fc[i].Forecast_Profit = FMul(fc[i].Forecast_Revenue, assumptions.avg_margin)

\* average 10000, margin 0.20, growth 0.03: 10300 / 2060, then 10609
C5_Witness ==
    /\ pc = "rendered"
    /\ assumptions.avg_monthly_revenue = Amount(10000)
    /\ assumptions.avg_margin = FDiv(Amount(20), Amount(100))
    /\ assumptions.growth = FDiv(Amount(3), Amount(100))
    /\ fc[1].Forecast_Revenue = Amount(10300)
    /\ fc[1].Forecast_Profit = Amount(2060)
    /\ fc[2].Forecast_Revenue = Amount(10609)

\* the months whose revenue sum is neither null nor zero
MarginMonths == {i \in DOMAIN monthly : ~ZeroOrNull(monthly[i].Revenue)}

\* sum of f over S, as floats
RECURSIVE FSumOver(_, _)
FSumOver(S, f) ==
    IF S = {} THEN Num(0)
    ELSE LET x == CHOOSE y \in S : TRUE IN FAdd(f[x], FSumOver(S \ {x}, f))

\* C6: avg_margin is the mean of Profit / Revenue over the months whose revenue
\* sum is non-null and non-zero; without such a month no forecast point is
\* emitted, and no emitted forecast profit is NaN or infinite.
C6_MarginOverNonZeroMonths ==
    pc = "rendered" =>
        /\ IF MarginMonths = {}
           THEN fc = <<>>
           ELSE assumptions.avg_margin =
                   FDiv(FSumOver(MarginMonths,
                                 [i \in DOMAIN monthly |->
                                     FDiv(monthly[i].Profit, monthly[i].Revenue)]),
                        Amount(Cardinality(MarginMonths)))
        /\ \A i \in DOMAIN fc : IsFinite(fc[i].Forecast_Profit)

\* a required column of the uploaded sales summary is absent
RequiredColumnMissing ==
    /\ uploaded # NoTable
    /\ \E c \in {S_Month, S_GrandTotal, S_GrossProfit} : ~HasCol(uploaded, c)

\* C10: when Month, Grand Total or Gross Profit(w/o Tax) is absent from the
\* uploaded table, the forecast page halts with a message and without an
\* unhandled error, and computes no aggregation and no forecast.
C10_MissingColumnHalts ==
    (RequiredColumnMissing /\ pc # "loaded") =>
        /\ pc = "stopped"
        /\ exc = "none"
        /\ messages # {}
        /\ monthly = <<>>
        /\ fc = <<>>

----------------------------------------------------------------------------
(* Column layouts of uploaded sales files *)

MaxCols == 3          \* columns of a generated layout
ColumnRows == 2       \* rows of a table generated for a layout

N_total_sp == <<" ","t","o","t","a","l">>
N_NetSales == <<"N","e","t"," ","S","a","l","e","s">>
N_Subtotal == <<"S","u","b","t","o","t","a","l">>
N_Cost == <<"C","o","s","t">>
N_Tax == <<"T","a","x">>
N_Profit == <<"P","r","o","f","i","t">>
N_Qty == <<"Q","t","y">>

\* the names a file's header is drawn from
NamePool ==
    {N_Date, N_Total, N_total_sp, S_GrandTotal, N_NetSales, N_Subtotal,
     N_Cost, N_Tax, N_Profit, S_GrossProfit, N_Qty}

\* the cells a column of that name holds
CellsFor(name) ==
    CASE name = N_Date -> {Date(Ts(FirstMonth, 0, 0))}
      [] name = N_Cost -> {Amount(60)}
      [] name = N_Tax -> {Amount(10)}
      [] name = N_Profit -> {NaN, Amount(25)}
      [] name = S_GrossProfit -> {Amount(7)}
      [] name \in {N_Qty, S_source_file} -> {Text}
      [] OTHER -> {Amount(100)}

\* the names of the files tried with column overrides
OverridePool == {N_Date, N_Total, N_Qty}

\* headers of at most n different names of pool
Layouts(pool, n) ==
    {h \in UNION {[1..k -> pool] : k \in 1..n} :
        \A i \in DOMAIN h : \A j \in DOMAIN h : h[i] = h[j] => i = j}

\* the files with the header h, '__source_file' added by the loader
FilesOf(h) ==
    TablesOf(Append(h, S_source_file),
             [j \in 1..(Len(h) + 1) |->
                 CellsFor(IF j <= Len(h) THEN h[j] ELSE S_source_file)],
             ColumnRows)

\* no file, or a file with a header of at most n names of pool
InitLayouts(pool, n) ==
    \/ InitWith({NoTable})
    \/ \E h \in Layouts(pool, n) : InitWith(FilesOf(h))

InitInfer == InitLayouts(NamePool, MaxCols)

NextInfer == Run

SpecInfer == InitInfer /\ [][NextInfer]_vars

InitColumns == InitLayouts(OverridePool, MaxCols)

NextColumns == Run \/ SelectColumn

SpecColumns == InitColumns /\ [][NextColumns]_vars

----------------------------------------------------------------------------
(* Claims about column inference and profit derivation *)

\* infer_and_prepare returned a table
Prepared == pc \in {"rendered", "error"} /\ df # NoTable

\* the cell of row r in the column bound to role, as a number; null when the
\* role is unresolved
RoleCell(role, r) ==
    IF colmap[role] = None THEN NaN
    ELSE ToNumericCell(Column(df, colmap[role])[r])

\* the explicit profit column: the inferred one, else 'Gross Profit(w/o Tax)'
HasExplicitProfit == colmap.profit # None \/ HasCol(uploaded, S_GrossProfit)

ExplicitProfit(r) ==
    IF colmap.profit # None THEN RoleCell("profit", r)
    ELSE ToNumericCell(Column(uploaded, S_GrossProfit)[r])

ExplicitProfitUsable ==
    HasExplicitProfit /\ \E r \in DOMAIN df.rows : notna(ExplicitProfit(r))

ExpectedProfit(r) ==
    IF ExplicitProfitUsable THEN ExplicitProfit(r)
    ELSE IF colmap.cost # None /\ colmap.tax # None
    THEN FSub(FSub(RoleCell("revenue", r), RoleCell("cost", r)), RoleCell("tax", r))
    ELSE IF colmap.cost # None
    THEN FSub(RoleCell("revenue", r), RoleCell("cost", r))
    ELSE NaN

TrimmedName(i) == strip(raw.cols[i])
LoweredName(i) == lower(strip(raw.cols[i]))

Least(S) == CHOOSE x \in S : \A y \in S : x <= y

\* the name of the first of the columns at the positions S, None for no position
FirstOf(S) == IF S = {} THEN None ELSE TrimmedName(Least(S))

\* the position in cands of the entry column i equals, 0 when it equals none
RankOf(name, cands) ==
    IF \E k \in DOMAIN cands : cands[k] = name
    THEN Least({k \in DOMAIN cands : cands[k] = name})
    ELSE 0

Rank(cands, i) == RankOf(LoweredName(i), cands)

\* the positions in cands of the candidates some column equals
Hits(cands) == {Rank(cands, i) : i \in DOMAIN raw.cols} \ {0}

\* the first of the columns equal to the entry of cands at position k
FirstEqual(cands, k) == FirstOf({i \in DOMAIN raw.cols : Rank(cands, i) = k})

\* the first column that equals the earliest candidate some column equals
ExactBinding(cands) ==
    IF Hits(cands) = {} THEN None ELSE FirstEqual(cands, Least(Hits(cands)))

\* the first column whose name contains 'total', 'amount' or 'sale'
SubstringBinding ==
    FirstOf({i \in DOMAIN raw.cols :
                \E k \in DOMAIN RevenueSubstrings :
                    Contains(RevenueSubstrings[k], LoweredName(i))})

\* the first column, of a name no other column has, whose cells all parse as dates
DateLikeBinding ==
    FirstOf({i \in DOMAIN raw.cols :
                /\ \A j \in DOMAIN raw.cols : TrimmedName(j) = TrimmedName(i) => j = i
                /\ \A r \in DOMAIN raw.rows : raw.rows[r][i].k # "text"})

RevenueBinding ==
    IF ExactBinding(RevenueCandidates) # None THEN ExactBinding(RevenueCandidates)
    ELSE SubstringBinding

\* C8, as stated: every role binds to the first column equal to the earliest
\* matching entry of its exact-candidate list; revenue falls back to the first
\* column containing 'total', 'amount' or 'sale' only when no exact candidate
\* matches; with no match the role is unresolved.
C8_ExactThenSubstringOnly ==
    pc \in {"rendered", "error"} =>
        /\ colmap.date = ExactBinding(DateCandidates)
        /\ colmap.revenue = RevenueBinding
        /\ colmap.cost = ExactBinding(CostCandidates)
        /\ colmap.tax = ExactBinding(TaxCandidates)
        /\ colmap.profit = ExactBinding(ProfitCandidates)

\* C8, amended: as stated, except that the date role, when no exact candidate
\* matches, binds to the first column in original order whose values all parse
\* as dates, and is unresolved only when there is no such column either.
C8_InferencePriority ==
    pc \in {"rendered", "error"} =>
        /\ colmap.date = IF ExactBinding(DateCandidates) # None
                         THEN ExactBinding(DateCandidates)
                         ELSE DateLikeBinding
        /\ colmap.revenue = RevenueBinding
        /\ colmap.cost = ExactBinding(CostCandidates)
        /\ colmap.tax = ExactBinding(TaxCandidates)
        /\ colmap.profit = ExactBinding(ProfitCandidates)

\* a column that only contains 'sale' ahead of two columns that both equal
\* 'total' and of a later exact candidate: revenue binds to the first 'total'
C8_Witness ==
    /\ pc \in {"rendered", "error"}
    /\ \E i \in DOMAIN raw.cols : \E j \in DOMAIN raw.cols : \E k \in DOMAIN raw.cols :
          /\ i < j /\ j < k
          /\ LoweredName(i) = lower(N_NetSales)
          /\ LoweredName(j) = RevenueCandidates[1]
          /\ LoweredName(k) = RevenueCandidates[1]
          /\ TrimmedName(j) # TrimmedName(k)
          /\ colmap.revenue = TrimmedName(j)

\* the warnings infer_and_prepare issues
Warnings == {W_NoDate, W_NoRevenue}

\* C9: when inference binds no column to the date, revenue or profit role and no
\* override is selected, a warning is issued and the run still completes; it
\* never ends in an error.
C9_UnresolvedRoleCompletes ==
    (/\ pc \in {"rendered", "error"}
     /\ selected = DefaultSelection
     /\ \E role \in {"date", "revenue", "profit"} : colmap[role] = None) =>
        /\ pc = "rendered"
        /\ exc = "none"
        /\ messages \cap Warnings # {}

----------------------------------------------------------------------------
\* the semantic roles of column inference
Roles == {"date", "revenue", "cost", "tax", "profit"}

\* the run tells the user that something about the columns needs a manual
\* override: it ends in an error or issues one of its warnings
CollisionFlagged == pc = "error" \/ messages \cap Warnings # {}

\* C12: after column inference each role is bound to at most one column, and no
\* column is bound to two different roles unless the run flags it.
C12_RolesBindDistinctColumns ==
    (Prepared /\ selected = DefaultSelection) =>
        /\ \A role \in Roles : colmap[role] = None \/ In(colmap[role], df.cols)
        /\ \A r1 \in Roles : \A r2 \in Roles \ {r1} :
              (colmap[r1] # None /\ colmap[r1] = colmap[r2]) => CollisionFlagged

(* pages/3_Sales_vs_PnL.py *)

S_GrossProfitShort == <<"G","r","o","s","s"," ","P","r","o","f","i","t">>
S_NetProfit == <<"N","e","t"," ","P","r","o","f","i","t">>
Sub_month == <<"m","o","n","t","h">>
Sub_date == <<"d","a","t","e">>
Sub_net == <<"n","e","t">>

I_UploadBoth == "Please upload both files to begin."

\* sales_gp: gross profit per month of the sales file (lines 35-48)
sales_gross_profit(file) ==
    LET kept == Loc(file, [r \in DOMAIN file.rows |-> notna(Column(file, S_Month)[r])])
        t == Assign(Assign(kept, S_Month, to_datetime(Column(kept, S_Month))),
                    S_GrossProfitShort, to_numeric(Column(kept, S_GrossProfit)))
        keys == SortedSeq({MonthOf(x) : x \in Stamps(Column(t, S_Month))})
    IN [i \in DOMAIN keys |->
          [Month        |-> Ts(keys[i], 0, 0),
           Gross_Profit |-> NanSum(PeriodCells(t, S_GrossProfitShort, keys[i]))]]

\* pnl.columns = [c.strip() for c in pnl.columns]
strip_columns(t) == [cols |-> [i_ \in DOMAIN t.cols |-> strip(t.cols[i_])], rows |-> t.rows]

\* "month" in c.lower() or "date" in c.lower()
MonthLike(c) == Contains(Sub_month, lower(c)) \/ Contains(Sub_date, lower(c))

\* "net" in c.lower()
NetLike(c) == Contains(Sub_net, lower(c))

\* [c for c in pnl.columns if MonthLike(c)][0]; None stands for the IndexError
pnl_date_col(t) ==
    IF \A i \in DOMAIN t.cols : ~MonthLike(t.cols[i]) THEN None
    ELSE t.cols[CHOOSE i \in DOMAIN t.cols :
                   MonthLike(t.cols[i]) /\ \A j \in 1..(i - 1) : ~MonthLike(t.cols[j])]

\* [c for c in pnl.columns if NetLike(c)][0]; None stands for the IndexError
pnl_profit_col(t) ==
    IF \A i \in DOMAIN t.cols : ~NetLike(t.cols[i]) THEN None
    ELSE t.cols[CHOOSE i \in DOMAIN t.cols :
                   NetLike(t.cols[i]) /\ \A j \in 1..(i - 1) : ~NetLike(t.cols[j])]

\* pnl_np: Month and Net Profit of the rows that have a Month, sorted by Month
\* (lines 57-61); t has its columns stripped
pnl_net_profit(t) ==
    LET months == to_datetime(Column(t, pnl_date_col(t)))
        nets == to_numeric(Column(t, pnl_profit_col(t)))
        n == Len(t.rows)
        order == SortedSeq({months[r].v * (n + 1) + r :
                               r \in {q \in DOMAIN t.rows : notna(months[q])}})
    IN [j \in DOMAIN order |->
          [Month      |-> months[order[j] % (n + 1)].v,
           Net_Profit |-> nets[order[j] % (n + 1)]]]

\* pd.merge(sales_gp, pnl_np[["Month", "Net Profit"]], on="Month", how="inner")
\* with the column "Overhead / Leakage" (lines 64-73)
merge_inner(sales_gp, pnl_np) ==
    LET n == Len(pnl_np)
        pairs == SortedSeq({p[1] * (n + 1) + p[2] :
                               p \in {q \in (DOMAIN sales_gp) \X (DOMAIN pnl_np) :
                                         pnl_np[q[2]].Month = sales_gp[q[1]].Month}})
    IN [k \in DOMAIN pairs |->
          [Month        |-> sales_gp[pairs[k] \div (n + 1)].Month,
           Gross_Profit |-> sales_gp[pairs[k] \div (n + 1)].Gross_Profit,
           Net_Profit   |-> pnl_np[pairs[k] % (n + 1)].Net_Profit,
           Overhead     |-> FSub(sales_gp[pairs[k] \div (n + 1)].Gross_Profit,
                                 pnl_np[pairs[k] % (n + 1)].Net_Profit)]]

\* the positions of a column that hold a number
NumberAt(col) == {k \in DOMAIN col : col[k].k = "num"}

\* series.idxmin() / series.idxmax() of a column that holds a number: the first
\* position of the least / greatest one
idxmin(col) ==
    CHOOSE k \in NumberAt(col) :
        \A m \in NumberAt(col) :
            col[k].v < col[m].v \/ (col[k].v = col[m].v /\ k <= m)

idxmax(col) ==
    CHOOSE k \in NumberAt(col) :
        \A m \in NumberAt(col) :
            col[k].v > col[m].v \/ (col[k].v = col[m].v /\ k <= m)

\* what merged.loc[col.idxmin(), "Month"] raises: idxmin of an empty column is a
\* ValueError; of an all-NaN column it is NaN in older pandas, which .loc does
\* not find, and a ValueError in newer pandas
idx_failure(col, legacy) ==
    IF col = <<>> THEN "ValueError"
    ELSE IF NumberAt(col) = {} THEN (IF legacy THEN "KeyError: nan" ELSE "ValueError")
    ELSE "none"

SalesPnlOutcome(p, mg, k, msgs, e) ==
    [pc |-> p, merged |-> mg, kpi |-> k, messages |-> msgs, exc |-> e]

\* "KPIs" (lines 75-87); overhead is merged["Overhead / Leakage"]
kpi_row(mg, overhead, legacy) ==
    IF idx_failure(overhead, legacy) # "none"
    THEN SalesPnlOutcome("error", mg,
                         [avg_overhead |-> Mean(overhead), best |-> NaN, worst |-> NaN],
                         {}, idx_failure(overhead, legacy))
    ELSE SalesPnlOutcome("rendered", mg,
                         [avg_overhead |-> Mean(overhead),
                          best  |-> Date(mg[idxmin(overhead)].Month),
                          worst |-> Date(mg[idxmax(overhead)].Month)],
                         {}, "none")

\* "Merge" (lines 63-73)
merge_section(mg, legacy) == kpi_row(mg, [k \in DOMAIN mg |-> mg[k].Overhead], legacy)

\* "Load P&L" (lines 50-61)
pnl_section(sales_gp, t, legacy) ==
    IF pnl_date_col(t) = None \/ pnl_profit_col(t) = None
    THEN SalesPnlOutcome("error", <<>>, NoKpi, {}, "IndexError")
    ELSE merge_section(merge_inner(sales_gp, pnl_net_profit(t)), legacy)

\* the page from the uploaders on (lines 14-102)
SalesPnlPage(sales, pnl, legacy) ==
    IF sales = NoTable \/ pnl = NoTable
    THEN SalesPnlOutcome("stopped", <<>>, NoKpi, {I_UploadBoth}, "none")
    ELSE IF ~HasCol(sales, S_Month)
    THEN SalesPnlOutcome("error", <<>>, NoKpi, {}, "KeyError: 'Month'")
    ELSE IF ~HasCol(sales, S_GrossProfit)
    THEN SalesPnlOutcome("error", <<>>, NoKpi, {}, "KeyError: 'Gross Profit(w/o Tax)'")
    ELSE pnl_section(sales_gross_profit(sales), strip_columns(pnl), legacy)

ShowSalesPnl(out) ==
    /\ pc' = out.pc
    /\ merged' = out.merged
    /\ kpi' = out.kpi
    /\ messages' = out.messages
    /\ exc' = out.exc
    /\ UNCHANGED <<raw, df, colmap, selected, daterange, filtered, agg, monthly,
                   assumptions, fc, slider>>

\* the first run of the page, before any upload
RunSalesPnl ==
    /\ pc = "loaded"
    /\ UNCHANGED <<uploaded, pnl_file>>
    /\ \E legacy \in BOOLEAN : ShowSalesPnl(SalesPnlPage(uploaded, pnl_file, legacy))

N_Month_sp == <<" ","M","o","n","t","h">>

\* the files offered to the two uploaders
BridgeMonthCells ==
    {Text, Date(Ts(FirstMonth, 0, 0)), Date(Ts(FirstMonth, DaysPerMonth - 1, 0))}
NetProfitCells == {Text, Amount(500)}

SalesFiles ==
    TablesOf(<<S_Month, S_GrossProfit>>, <<MonthCells, GrossProfitCells>>, ColumnRows)
    \cup TablesOf(<<S_Month>>, <<MonthCells>>, 1)
    \cup TablesOf(<<S_GrossProfit>>, <<GrossProfitCells>>, 1)

PnlFiles ==
    TablesOf(<<N_Month_sp, S_NetProfit>>, <<BridgeMonthCells, NetProfitCells>>,
             ColumnRows)
    \cup TablesOf(<<N_Qty, S_NetProfit>>, <<{Text}, NetProfitCells>>, 1)
    \cup TablesOf(<<N_Month_sp, N_Qty>>, <<BridgeMonthCells, {Text}>>, 1)

\* the user uploads the sales summary, which reruns the page
UploadSales ==
    /\ pc # "loaded"
    /\ uploaded = NoTable
    /\ \E f \in SalesFiles : \E legacy \in BOOLEAN :
          /\ uploaded' = f
          /\ pnl_file' = pnl_file
          /\ ShowSalesPnl(SalesPnlPage(f, pnl_file, legacy))

\* the user uploads the P&L file, which reruns the page
UploadPnl ==
    /\ pc # "loaded"
    /\ pnl_file = NoTable
    /\ \E f \in PnlFiles : \E legacy \in BOOLEAN :
          /\ pnl_file' = f
          /\ uploaded' = uploaded
          /\ ShowSalesPnl(SalesPnlPage(uploaded, f, legacy))

InitSalesPnl == InitWith({NoTable})

NextSalesPnl == RunSalesPnl \/ UploadSales \/ UploadPnl

SpecSalesPnl == InitSalesPnl /\ [][NextSalesPnl]_vars

(* claim about empty results *)

\* the page got as far as its merge: both files are loaded and neither the
\* sales file nor the P&L file lacks a column the page reads
MergeReached ==
    /\ pc \in {"rendered", "error"}
    /\ uploaded # NoTable
    /\ pnl_file # NoTable
    /\ exc \notin {"IndexError", "KeyError: 'Month'", "KeyError: 'Gross Profit(w/o Tax)'"}

\* C11: when the merge of the sales-versus-P&L view yields zero rows, the view
\* shows an informational message and its KPIs stay placeholders; no KPI
\* computation fails on the empty table.
C11_EmptyMergeInforms ==
    (MergeReached /\ merged = <<>>)
        => /\ pc # "error"
           /\ exc = "none"
           /\ messages # {}
           /\ kpi.best = NaN
           /\ kpi.worst = NaN

====
